---- MODULE Spec2Model ----
(***************************************************************************)
(* PythonCyc: the PGDB frame cache (PGDB.py), the lazy PFrame proxy        *)
(* (PToolsFrame.py), the Lisp call encoder (PGDB.py) and the socket        *)
(* transport (PTools.py), as a state machine.  Python strings are sequences of one-character strings, so     *)
(* that startswith/replace/lower are computed and not assumed.             *)
(***************************************************************************)
EXTENDS Integers, Sequences, FiniteSets, TLC

VARIABLES
    heap,    \* every PFrame object created so far; an object's identity is its index
    pgdbs,   \* every PGDB object created so far (index = identity)
    last,    \* observation of the last operation: what it was, what it returned,
             \* the exception it raised and the Lisp functions it called on the server
    net      \* the call of sendQueryToPTools in progress (PTools.py): its position,
             \* its locals, the socket and the bytes on the connection

vars == <<heap, pgdbs, last, net>>

----------------------------------------------------------------------------
(* Bounds of the model.                                                    *)

MaxObjs  == 3      \* PFrame objects that may exist
MaxPGDBs == 2      \* PGDB objects that may exist

MaxMajorObjs == 15 \* PFrame objects one call of get_major_classes may add

MaxLen == 3        \* elements of a list or tuple given to the encoder

----------------------------------------------------------------------------
(* Strings.                                                                *)

Upper == <<"A","B","C","D","E","F","G","H","I","J","K","L","M",
           "N","O","P","Q","R","S","T","U","V","W","X","Y","Z">>
Lower == <<"a","b","c","d","e","f","g","h","i","j","k","l","m",
           "n","o","p","q","r","s","t","u","v","w","x","y","z">>

\* str.lower() on one character
LowerChar(c) ==
    IF \E i \in 1..26 : Upper[i] = c
    THEN Lower[CHOOSE i \in 1..26 : Upper[i] = c]
    ELSE c

\* s.startswith(c) / s.endswith(c) for a one-character c
StartsWith(s, c) == Len(s) > 0 /\ s[1] = c
EndsWith(s, c)   == Len(s) > 0 /\ s[Len(s)] = c

RECURSIVE Join(_, _)
\* sep.join(parts)
Join(parts, sep) ==
    IF Len(parts) = 0 THEN << >>
    ELSE IF Len(parts) = 1 THEN parts[1]
    ELSE parts[1] \o sep \o Join(Tail(parts), sep)

\* what the chain of str.replace calls and lower() makes of one character
ConvChar(c) ==
    CASE c = "-" -> <<"_">>
      [] c = "." -> <<"_">>
      [] c = "?" -> <<"_", "p">>
      [] c = "|" -> << >>
      [] OTHER   -> <<LowerChar(c)>>

RECURSIVE convertLispIdtoPythonId(_)
\* s.replace('-','_').replace('.','_').replace('?','_p').replace('|','').lower()
convertLispIdtoPythonId(s) ==
    IF Len(s) = 0 THEN << >>
    ELSE ConvChar(s[1]) \o convertLispIdtoPythonId(Tail(s))

----------------------------------------------------------------------------
(* Python values that reach the encoder.  One record shape for all kinds.  *)

VStr(s)      == [t |-> "str",    s |-> s,      n |-> 0, items |-> << >>]
VSymbol(s)   == [t |-> "Symbol", s |-> s,      n |-> 0, items |-> << >>]
VInt(n)      == [t |-> "int",    s |-> << >>,  n |-> n, items |-> << >>]
VBool(b)     == [t |-> "bool",   s |-> << >>,  n |-> IF b THEN 1 ELSE 0, items |-> << >>]
VNone        == [t |-> "None",   s |-> << >>,  n |-> 0, items |-> << >>]
VPFrame(fid) == [t |-> "PFrame", s |-> fid,    n |-> 0, items |-> << >>]
VList(xs)    == [t |-> "list",   s |-> << >>,  n |-> 0, items |-> xs]
VTuple(xs)   == [t |-> "tuple",  s |-> << >>,  n |-> 0, items |-> xs]

\* a dict argument: convertArgToLisp has no branch for it
VDict        == [t |-> "dict",   s |-> << >>,  n |-> 0, items |-> << >>]

\* what a Python expression evaluates to: a string, None, or a raised exception
RStr(s)   == [r |-> "str",  s |-> s,     e |-> ""]
RNone     == [r |-> "None", s |-> << >>, e |-> ""]
RRaise(e) == [r |-> "exc",  s |-> << >>, e |-> e]

DigitChars == <<"0","1","2","3","4","5","6","7","8","9">>

RECURSIVE StrNat(_)
\* str(n) for n >= 0
StrNat(n) == IF n < 10 THEN <<DigitChars[n + 1]>>
             ELSE StrNat(n \div 10) \o <<DigitChars[(n % 10) + 1]>>

\* str(n) for an int
StrInt(n) == IF n < 0 THEN <<"-">> \o StrNat(0 - n) ELSE StrNat(n)

\* str(True), str(False)
StrBool(n) == IF n = 1 THEN <<"T","r","u","e">> ELSE <<"F","a","l","s","e">>

RECURSIVE convertArgToLisp(_, _)
RECURSIVE ConvertAll(_)
\* [convertArgToLisp(e, inquote=True) for e in xs]
ConvertAll(xs) ==
    IF Len(xs) = 0 THEN << >>
    ELSE <<convertArgToLisp(xs[1], TRUE)>> \o ConvertAll(Tail(xs))

\* ' '.join(rs): raises the first exception an element raised, TypeError for an
\* element that is None, and otherwise joins the strings
JoinResults(rs) ==
    IF \E i \in 1..Len(rs) : rs[i].r = "exc"
    THEN rs[CHOOSE i \in 1..Len(rs) :
                rs[i].r = "exc" /\ \A j \in 1..(i-1) : rs[j].r # "exc"]
    ELSE IF \E i \in 1..Len(rs) : rs[i].r = "None"
    THEN RRaise("TypeError")
    ELSE RStr(Join([i \in 1..Len(rs) |-> rs[i].s], <<" ">>))

convertArgToLisp(arg, inquote) ==
    CASE arg.t = "str" ->
            RStr((IF inquote \/ StartsWith(arg.s, ":") THEN << >> ELSE <<"'">>) \o arg.s)
      [] arg.t = "int"  -> RStr(StrInt(arg.n))
      [] arg.t = "bool" -> RStr(StrBool(arg.n))   \* isinstance(True, int) holds
      [] arg.t = "None" -> RStr(<<"n","i","l">>)
      [] arg.t = "PFrame" -> RStr(arg.s)
      [] arg.t = "list" ->
            LET Quoted(inner) ==
                    IF inner.r = "exc" THEN inner
                    ELSE RStr((IF inquote THEN << >> ELSE <<"'">>)
                              \o <<"(">> \o inner.s \o <<")">>)
            IN  Quoted(JoinResults(ConvertAll(arg.items)))
      [] OTHER -> RNone     \* no branch is taken: the function falls off its end

\* prepareFnCall(fn, *args, **kwargs); kwargs is the sequence of <<key, value>>
\* pairs in the iteration order of the dict
prepareFnCall(fn, args, kwargs) ==
    LET Keyword(kv, c) ==
            IF c.r = "exc" THEN c
            ELSE RStr(<<":">> \o kv[1] \o <<" ">> \o
                      (IF c.r = "None" THEN <<"N","o","n","e">> ELSE c.s))
        kw(kv) == Keyword(kv, convertArgToLisp(kv[2], FALSE))
        Keywords(kept) == JoinResults([i \in 1..Len(kept) |-> kw(kept[i])])
        Call(args2, keywords) ==
            IF args2.r = "exc" THEN args2
            ELSE IF keywords.r = "exc" THEN keywords
            ELSE RStr(<<"(">> \o fn \o <<" ">> \o args2.s \o <<" ">> \o keywords.s \o <<")">>)
    IN  Call(JoinResults([i \in 1..Len(args) |-> convertArgToLisp(args[i], FALSE)]),
             Keywords(SelectSeq(kwargs, LAMBDA kv : kv[2].t # "None")))

----------------------------------------------------------------------------
(* The running Pathway Tools server: a fixed knowledge base.  The server   *)
(* is outside the repository; the model fixes what the client code and its *)
(* docstrings say the server answers.                                      *)

ClassCs == <<"C", "s">>            \* a class frame, like Reactions
InstT1  == <<"T", "-", "1">>       \* an instance of Cs, like RXN-9000
InstU   == <<"U">>                 \* an instance of Cs
SlotNm  == <<"N", "-", "m">>       \* a slot every frame has, like COMMON-NAME
SlotK   == <<"K", "?">>            \* a slot the instances have
SlotZ   == <<"Z">>                 \* a slot no frame has
SlotY   == <<"Y", ".", "y">>       \* a slot no frame has

\* the classes get_major_classes names, and one instance of each
Reactions == <<"R","e","a","c","t","i","o","n","s">>
Pathways  == <<"P","a","t","h","w","a","y","s">>
Genes     == <<"G","e","n","e","s">>
Compounds == <<"C","o","m","p","o","u","n","d","s">>
Proteins  == <<"P","r","o","t","e","i","n","s">>
MajorClasses   == <<Reactions, Pathways, Genes, Compounds, Proteins>>
MajorInstances == <<<<"R","-","1">>, <<"P","-","1">>, <<"G","-","1">>, <<"C","-","1">>, <<"Q","-","1">>>>

KBClasses   == {ClassCs} \cup {MajorClasses[i] : i \in 1..5}
KBInstances == {InstT1, InstU} \cup {MajorInstances[i] : i \in 1..5}
KBFrames    == KBClasses \cup KBInstances
KnownOrgids == {"meta"}
UnknownOrgid == "unknown"

\* the instances of a class, in the order the server lists them
KBInstancesOf(c) ==
    IF c = ClassCs THEN <<InstT1, InstU>>
    ELSE IF \E i \in 1..5 : MajorClasses[i] = c
    THEN <<MajorInstances[CHOOSE i \in 1..5 : MajorClasses[i] = c]>>
    ELSE << >>

\* a map as a function; the empty map is << >>
Put(m, k, v) == [x \in (DOMAIN m) \cup {k} |-> IF x = k THEN v ELSE m[x]]

\* the slots of a frame and their values
KBSlots(f) ==
    IF f \in KBClasses THEN Put(<< >>, SlotNm, <<"c">>)
    ELSE Put(Put(<< >>, SlotNm, <<"n">>), SlotK, <<"k">>)

\* the Lisp reader on |X|: the symbol named X, read verbatim
Unbar(fid) ==
    IF Len(fid) >= 2 /\ StartsWith(fid, "|") /\ EndsWith(fid, "|")
    THEN SubSeq(fid, 2, Len(fid) - 1) ELSE fid

\* class-name-p: the real name of the class closest to name (case of letters,
\* '_' for '-'), or nil
ServerClassNameP(name) ==
    IF \E c \in KBClasses : convertLispIdtoPythonId(c) = convertLispIdtoPythonId(name)
    THEN CHOOSE c \in KBClasses : convertLispIdtoPythonId(c) = convertLispIdtoPythonId(name)
    ELSE << >>

\* frameid-instance-p: as class-name-p, for instances
ServerFrameidInstanceP(name) ==
    IF \E c \in KBInstances : convertLispIdtoPythonId(c) = convertLispIdtoPythonId(name)
    THEN CHOOSE c \in KBInstances : convertLispIdtoPythonId(c) = convertLispIdtoPythonId(name)
    ELSE << >>

\* get-frame-objects: the frames of the request that exist
ServerGetFrameObjects(frameids) ==
    {Unbar(frameids[i]) : i \in 1..Len(frameids)} \cap KBFrames

Perms(S) == {p \in [1..Cardinality(S) -> S] : \A i, j \in 1..Cardinality(S) : p[i] = p[j] => i = j}

----------------------------------------------------------------------------
(* The methods.  A method is a function from a world (the objects, and the *)
(* trace of the call in progress) to a world.                              *)

\* the world at the start of an operation
World == [heap |-> heap, pgdbs |-> pgdbs,
          sent |-> << >>,           \* Lisp functions called on the server, in order
          exc  |-> "",              \* the exception raised, "" for none
          kind |-> "None",          \* the kind of value returned
          ids  |-> << >>,           \* the PFrame(s) returned
          val  |-> << >>]           \* the string returned

Raised(w)          == w.exc # ""
Raise(w, e)        == [w EXCEPT !.exc = e, !.kind = "None", !.ids = << >>, !.val = << >>]
ReturnNone(w)      == [w EXCEPT !.kind = "None", !.ids = << >>, !.val = << >>]
ReturnFrame(w, id) == [w EXCEPT !.kind = "PFrame", !.ids = <<id>>, !.val = << >>]
ReturnList(w, l)   == [w EXCEPT !.kind = "list", !.ids = l, !.val = << >>]
ReturnStr(w, v)    == [w EXCEPT !.kind = "str", !.ids = << >>, !.val = v]
ReturnBool(w, b)   == [w EXCEPT !.kind = "bool", !.ids = << >>,
                                !.val = IF b THEN <<"True">> ELSE <<"False">>]

\* PGDB.sendPgdbFnCall up to the moment the query leaves: the call is encoded
\* (which may raise) and, unless the organism is unknown, sent
sendPgdbFnCall(w, g, fn, args) ==
    LET Send(fnCall) ==
            IF fnCall.r = "exc" THEN Raise(w, fnCall.e)
            ELSE IF w.pgdbs[g].orgid = UnknownOrgid THEN w
            ELSE [w EXCEPT !.sent = Append(@, fn)]
    IN  Send(prepareFnCall(<<fn>>, args, << >>))

\* whether sendPgdbQuery gets an answer from the server (else it returns None)
Answered(w, g) == w.pgdbs[g].orgid # UnknownOrgid

\* for slot in frameObject: self.__dict__[convertLispIdtoPythonId(slot)] = frameObject[slot]
\* (the slots of the knowledge base have distinct converted names)
StoreSlots(local, fetched) ==
    LET keys == {convertLispIdtoPythonId(sl) : sl \in DOMAIN fetched}
    IN  [k \in (DOMAIN local) \cup keys |->
            IF k \in keys
            THEN fetched[CHOOSE sl \in DOMAIN fetched : convertLispIdtoPythonId(sl) = k]
            ELSE local[k]]

\* get_frame_data that stores the slots and forgets to set _gotframe
M_get_frame_data_unmarked(w, id, miss) ==
    LET fid   == w.heap[id].frameid
        g     == w.heap[id].pgdb
        known == Answered(w, g) /\ Unbar(fid) \in KBFrames
        Got(w1) ==
            IF Raised(w1) THEN w1
            ELSE IF Answered(w, g) /\ ~known /\ miss = "error" THEN Raise(w1, "PToolsError")
            ELSE IF ~known THEN Raise(w1, "PythonCycError")
            ELSE [w1 EXCEPT !.heap[id].slots = StoreSlots(@, KBSlots(Unbar(fid)))]
    IN  Got(sendPgdbFnCall(w, g, "get-frame-object", <<VStr(fid)>>))

\* PFrame.get_frame_data; miss is what the server does with a frame it does not
\* have: answer nil, or report an error
get_frame_data(w, id, miss) ==
    LET fid   == w.heap[id].frameid
        g     == w.heap[id].pgdb
        known == Answered(w, g) /\ Unbar(fid) \in KBFrames
        Got(w1) ==
            IF Raised(w1) THEN w1
            ELSE IF Answered(w, g) /\ ~known /\ miss = "error" THEN Raise(w1, "PToolsError")
            ELSE IF ~known THEN Raise(w1, "PythonCycError")
            ELSE [w1 EXCEPT !.heap[id].gotframe = TRUE,
                            !.heap[id].slots = StoreSlots(@, KBSlots(Unbar(fid)))]
    IN  Got(sendPgdbFnCall(w, g, "get-frame-object", <<VStr(fid)>>))

\* PFrame.get_frame_slot_value
get_frame_slot_value(w, id, slot, miss) ==
    LET fid  == w.heap[id].frameid
        g    == w.heap[id].pgdb
        f    == Unbar(fid)
        sls  == IF f \in KBFrames
                THEN {sl \in DOMAIN KBSlots(f) :
                         convertLispIdtoPythonId(sl) = convertLispIdtoPythonId(slot)}
                ELSE {}
        Got(w1) ==
            IF Raised(w1) THEN w1
            ELSE IF ~Answered(w, g) THEN Raise(w1, "TypeError")   \* [slotName, value] = None
            ELSE IF f \notin KBFrames /\ miss = "error" THEN Raise(w1, "PToolsError")
            ELSE IF sls = {} THEN Raise(w1, "PythonCycError")      \* not slotName
            ELSE LET sl == CHOOSE x \in sls : TRUE
                 IN  [w1 EXCEPT !.heap[id].slots =
                                     Put(@, convertLispIdtoPythonId(sl), KBSlots(f)[sl])]
    IN  Got(sendPgdbFnCall(w, g, "get-frame-slot-value", <<VStr(fid), VSymbol(slot)>>))

\* PFrame.__init__ without the test for a frameid that is already wrapped
M_StoredFrameid_rewrap(frameid) == <<"|">> \o frameid \o <<"|">>

\* the frameid a PFrame stores: always surrounded by vertical bars
StoredFrameid(frameid) ==
    IF StartsWith(frameid, "|") /\ EndsWith(frameid, "|") THEN frameid
    ELSE <<"|">> \o frameid \o <<"|">>

\* PFrame.__init__ registering the object under the frameid as given, not
\* normalized
M_PFrame_init_rawkey(w, frameid, g, getFrameData, isClass, miss) ==
    LET id  == Len(w.heap) + 1
        obj == [frameid   |-> StoredFrameid(frameid),
                isclass   |-> isClass,
                hasinst   |-> isClass,
                instances |-> << >>,
                gotframe  |-> FALSE,
                pgdb      |-> g,
                slots     |-> << >>]
        Fetched(w2) == IF Raised(w2) THEN w2 ELSE ReturnFrame(w2, id)
        Registered(w1) ==
            IF getFrameData THEN Fetched(get_frame_data(w1, id, miss))
            ELSE ReturnFrame(w1, id)
    IN  Registered([w EXCEPT !.heap = Append(@, obj),
                             !.pgdbs[g].frames = Put(@, frameid, id)])

\* PFrame.__init__: the new object is the next one of the heap; it is returned
\* in ids, also when get_frame_data raises after the registration in _frames
PFrame_init(w, frameid, g, getFrameData, isClass, miss) ==
    LET id  == Len(w.heap) + 1
        obj == [frameid   |-> StoredFrameid(frameid),
                isclass   |-> isClass,
                hasinst   |-> isClass,      \* 'instances' in self.__dict__
                instances |-> << >>,
                gotframe  |-> FALSE,
                pgdb      |-> g,
                slots     |-> << >>]
        Fetched(w2) == IF Raised(w2) THEN w2 ELSE ReturnFrame(w2, id)
        Registered(w1) ==
            IF getFrameData THEN Fetched(get_frame_data(w1, id, miss))
            ELSE ReturnFrame(w1, id)
    IN  Registered([w EXCEPT !.heap = Append(@, obj),
                             !.pgdbs[g].frames = Put(@, convertLispIdtoPythonId(frameid), id)])

RECURSIVE get_frame_objects_loop(_, _, _, _)
\* the loop of get_frame_objects over frameObjects.iteritems(), in the order the
\* dict yields them; acc is pframes
get_frame_objects_loop(w, g, order, acc) ==
    IF Len(order) = 0 THEN ReturnList(w, acc)
    ELSE LET frameid == order[1]
             attrID  == convertLispIdtoPythonId(frameid)
             reuse   == attrID \in DOMAIN w.pgdbs[g].dict
             Created(n) == [n EXCEPT !.pgdbs[g].dict = Put(@, attrID, n.ids[1])]
             Filled(w1, f) ==
                 get_frame_objects_loop(
                     [w1 EXCEPT !.heap[f].gotframe = TRUE,
                                !.heap[f].slots = StoreSlots(@, KBSlots(frameid))],
                     g, Tail(order), Append(acc, f))
         IN  IF reuse THEN Filled(w, w.pgdbs[g].dict[attrID])
             ELSE Filled(Created(PFrame_init(w, frameid, g, FALSE, FALSE, "nil")),
                         Len(w.heap) + 1)

\* PGDB.get_frame_objects; order is the iteration order of the returned dict
get_frame_objects(w, g, frameids, order) ==
    LET Got(w1) ==
            IF Raised(w1) THEN w1
            ELSE IF ~Answered(w, g) THEN Raise(w1, "AttributeError")  \* [].iteritems()
            ELSE get_frame_objects_loop(w1, g, order, << >>)
    IN  Got(sendPgdbFnCall(w, g, "get-frame-objects",
                           <<VList([i \in 1..Len(frameids) |-> VStr(frameids[i])])>>))

RECURSIVE M_MakeInstances_fetch(_, _, _, _)
\* the instances built as [PFrame(frameid, self, getFrameData=True) for ...]
M_MakeInstances_fetch(w, g, frameids, acc) ==
    IF Len(frameids) = 0 THEN ReturnList(w, acc)
    ELSE LET Rest(w1) == M_MakeInstances_fetch(w1, g, Tail(frameids), Append(acc, w1.ids[1]))
         IN  Rest(PFrame_init(w, frameids[1], g, TRUE, FALSE, "nil"))

RECURSIVE MakeInstances(_, _, _, _)
\* [PFrame(frameid, self) for frameid in frameids]
MakeInstances(w, g, frameids, acc) ==
    IF Len(frameids) = 0 THEN ReturnList(w, acc)
    ELSE LET Rest(w1) == MakeInstances(w1, g, Tail(frameids), Append(acc, w1.ids[1]))
         IN  Rest(PFrame_init(w, frameids[1], g, FALSE, FALSE, "nil"))

\* PGDB.get_class_data
get_class_data(w, g, realClassName, getInstancesData, order, miss) ==
    LET f == Len(w.heap) + 1
        Fetched(w3) == IF Raised(w3) THEN w3 ELSE ReturnFrame(w3, f)
        Listed(w3)  == ReturnFrame([w3 EXCEPT !.heap[f].instances = w3.ids], f)
        GotClass(w2) ==
            LET frameids == IF Answered(w, g)
                            THEN KBInstancesOf(Unbar(w2.heap[f].frameid)) ELSE << >>
            IN  IF Raised(w2) THEN w2
                ELSE IF getInstancesData
                THEN Fetched(get_frame_objects(w2, g, frameids, order))
                ELSE Listed(MakeInstances(w2, g, frameids, << >>))
        Built(w1) ==
            IF Raised(w1) THEN w1
            ELSE GotClass(sendPgdbFnCall(w1, g, "get-class",
                                         <<VPFrame(w1.heap[f].frameid)>>))
    IN  Built(PFrame_init(w, realClassName, g, TRUE, TRUE, miss))

\* __getattr__ without the test attrId in self._frames
M_PGDB_getattr_nocache(w, g, attr, miss) ==
    LET attrId == convertLispIdtoPythonId(attr)
        realClassName == IF Answered(w, g) THEN ServerClassNameP(attr) ELSE << >>
        realInstanceName == IF Answered(w, g) THEN ServerFrameidInstanceP(attr) ELSE << >>
        AskedInstance(w2) ==
            IF Raised(w2) THEN w2
            ELSE IF realInstanceName # << >>
            THEN PFrame_init(w2, realInstanceName, g, TRUE, FALSE, miss)
            ELSE ReturnNone(w2)
        AskedClass(w1) ==
            IF Raised(w1) THEN w1
            ELSE IF realClassName # << >>
            THEN get_class_data(w1, g, realClassName, FALSE, << >>, miss)
            ELSE AskedInstance(sendPgdbFnCall(w1, g, "frameid-instance-p", <<VStr(attr)>>))
    IN  IF attrId \in DOMAIN w.pgdbs[g].dict THEN ReturnFrame(w, w.pgdbs[g].dict[attrId])
        ELSE AskedClass(sendPgdbFnCall(w, g, "class-name-p", <<VStr(attr)>>))

\* __getattr__ that builds a lazy PFrame for a name the server does not know
M_PGDB_getattr_lazy_miss(w, g, attr, miss) ==
    LET attrId == convertLispIdtoPythonId(attr)
        realClassName == IF Answered(w, g) THEN ServerClassNameP(attr) ELSE << >>
        realInstanceName == IF Answered(w, g) THEN ServerFrameidInstanceP(attr) ELSE << >>
        AskedInstance(w2) ==
            IF Raised(w2) THEN w2
            ELSE IF realInstanceName # << >>
            THEN PFrame_init(w2, realInstanceName, g, TRUE, FALSE, miss)
            ELSE ReturnNone(PFrame_init(w2, attr, g, FALSE, FALSE, miss))
        AskedClass(w1) ==
            IF Raised(w1) THEN w1
            ELSE IF realClassName # << >>
            THEN get_class_data(w1, g, realClassName, FALSE, << >>, miss)
            ELSE AskedInstance(sendPgdbFnCall(w1, g, "frameid-instance-p", <<VStr(attr)>>))
    IN  IF attrId \in DOMAIN w.pgdbs[g].dict THEN ReturnFrame(w, w.pgdbs[g].dict[attrId])
        ELSE IF attrId \in DOMAIN w.pgdbs[g].frames
        THEN ReturnFrame(w, w.pgdbs[g].frames[attrId])
        ELSE AskedClass(sendPgdbFnCall(w, g, "class-name-p", <<VStr(attr)>>))

\* PGDB.__getattr__ for a string attr
PGDB_getattr(w, g, attr, miss) ==
    LET attrId == convertLispIdtoPythonId(attr)
        realClassName == IF Answered(w, g) THEN ServerClassNameP(attr) ELSE << >>
        realInstanceName == IF Answered(w, g) THEN ServerFrameidInstanceP(attr) ELSE << >>
        AskedInstance(w2) ==
            IF Raised(w2) THEN w2
            ELSE IF realInstanceName # << >>
            THEN PFrame_init(w2, realInstanceName, g, TRUE, FALSE, miss)
            ELSE ReturnNone(w2)
        AskedClass(w1) ==
            IF Raised(w1) THEN w1
            ELSE IF realClassName # << >>
            THEN get_class_data(w1, g, realClassName, FALSE, << >>, miss)
            ELSE AskedInstance(sendPgdbFnCall(w1, g, "frameid-instance-p", <<VStr(attr)>>))
    IN  IF attrId \in DOMAIN w.pgdbs[g].dict THEN ReturnFrame(w, w.pgdbs[g].dict[attrId])
        ELSE IF attrId \in DOMAIN w.pgdbs[g].frames
        THEN ReturnFrame(w, w.pgdbs[g].frames[attrId])
        ELSE AskedClass(sendPgdbFnCall(w, g, "class-name-p", <<VStr(attr)>>))

\* PGDB.__getitem__ for a string index
PGDB_getitem(w, g, index, miss) ==
    LET attrId == convertLispIdtoPythonId(index)
    IN  IF index \in DOMAIN w.pgdbs[g].frames THEN ReturnFrame(w, w.pgdbs[g].frames[index])
        ELSE IF attrId \in DOMAIN w.pgdbs[g].frames
        THEN ReturnFrame(w, w.pgdbs[g].frames[attrId])
        ELSE PGDB_getattr(w, g, index, miss)

STR_frameid   == <<"f","r","a","m","e","i","d">>
STR_pgdb      == <<"p","g","d","b">>
STR_instances == <<"i","n","s","t","a","n","c","e","s">>
STR_isclass   == <<"_","i","s","c","l","a","s","s">>
STR_gotframe  == <<"_","g","o","t","f","r","a","m","e">>

\* the keys of a PFrame's __dict__
DictKeys(obj) ==
    {STR_frameid, STR_pgdb, STR_isclass, STR_gotframe}
        \cup (IF obj.hasinst THEN {STR_instances} ELSE {})
        \cup DOMAIN obj.slots

\* return self.__dict__[k]
ReturnDict(w, id, k) ==
    LET obj == w.heap[id]
    IN  CASE k = STR_frameid   -> ReturnStr(w, obj.frameid)
          [] k = STR_pgdb      -> [w EXCEPT !.kind = "PGDB", !.ids = <<obj.pgdb>>, !.val = << >>]
          [] k = STR_isclass   -> ReturnBool(w, obj.isclass)
          [] k = STR_gotframe  -> ReturnBool(w, obj.gotframe)
          [] k = STR_instances -> ReturnList(w, obj.instances)
          [] OTHER             -> ReturnStr(w, obj.slots[k])

\* __getattr__ without the test of _gotframe
M_PFrame_getattr_refetch(w, id, attr, miss) ==
    LET attrId == convertLispIdtoPythonId(attr)
        Got(w1) ==
            IF Raised(w1) THEN w1
            ELSE IF attrId \notin DictKeys(w1.heap[id]) THEN ReturnNone(w1)
            ELSE ReturnDict(w1, id, attrId)
    IN  IF attr \in DictKeys(w.heap[id]) THEN ReturnDict(w, id, attr)
        ELSE IF attrId \in DictKeys(w.heap[id]) THEN ReturnDict(w, id, attrId)
        ELSE Got(get_frame_slot_value(w, id, attr, miss))

\* PFrame.__getattr__
PFrame_getattr(w, id, attr, miss) ==
    LET attrId == convertLispIdtoPythonId(attr)
        Got(w1) ==
            IF Raised(w1) THEN w1
            ELSE IF attrId \notin DictKeys(w1.heap[id]) THEN ReturnNone(w1)
            ELSE ReturnDict(w1, id, attrId)
    IN  IF attr \in DictKeys(w.heap[id]) THEN ReturnDict(w, id, attr)
        ELSE IF attrId \in DictKeys(w.heap[id]) THEN ReturnDict(w, id, attrId)
        ELSE IF w.heap[id].gotframe THEN ReturnNone(w)
        ELSE Got(get_frame_slot_value(w, id, attr, miss))

\* PFrame.__getitem__ for a string attr
PFrame_getitem(w, id, attr, miss) ==
    LET attrId == convertLispIdtoPythonId(attr)
    IN  IF attr \in DictKeys(w.heap[id]) THEN ReturnDict(w, id, attr)
        ELSE IF attrId \in DictKeys(w.heap[id]) THEN ReturnDict(w, id, attrId)
        ELSE PFrame_getattr(w, id, attr, miss)

\* PFrame.__getitem__ for an int index i (0-based)
PFrame_getitem_int(w, id, i) ==
    IF w.heap[id].hasinst
    THEN IF i < Len(w.heap[id].instances)
         THEN ReturnFrame(w, w.heap[id].instances[i + 1])
         ELSE Raise(w, "IndexError")
    ELSE Raise(w, "PythonCycError")

\* PGDB.__eq__(self, other) for a PGDB other: the body reads the name o, which
\* is not bound (the parameter is called other)
PGDB_eq(w, g1, g2) == Raise(w, "NameError")

\* PFrame.__eq__(self, frame) for a PFrame frame
PFrame_eq(w, id1, id2) ==
    LET Compared(w1) ==
            IF Raised(w1) THEN w1
            ELSE ReturnBool(w1, w1.val = <<"True">>
                                /\ w.heap[id1].frameid = w.heap[id2].frameid)
    IN  Compared(PGDB_eq(w, w.heap[id1].pgdb, w.heap[id2].pgdb))

\* PFrame.__eq__(self, frame) for a str frame
PFrame_eq_str(w, id, frameid) == ReturnBool(w, w.heap[id].frameid = frameid)

\* PFrame.__ne__
PFrame_ne(w, id1, id2) ==
    LET Negated(w1) == IF Raised(w1) THEN w1 ELSE ReturnBool(w1, w1.val # <<"True">>)
    IN  Negated(PFrame_eq(w, id1, id2))

\* PFrame.__setattr__ with the test of the name removed
M_PFrame_setattr_open(w, id, attr, val) ==
    ReturnNone([w EXCEPT !.heap[id] =
        CASE attr = STR_gotframe  -> [@ EXCEPT !.gotframe = (val.n = 1)]
          [] attr = STR_isclass   -> [@ EXCEPT !.isclass = (val.n = 1)]
          [] attr = STR_frameid   -> [@ EXCEPT !.frameid = val.s]
          [] attr = STR_instances -> [@ EXCEPT !.hasinst = TRUE, !.instances = << >>]
          [] OTHER                -> [@ EXCEPT !.slots = Put(@, attr, val.s)]])

\* PFrame.__setattr__(attr, val): val is a str, or a bool for _gotframe and
\* _isclass; self.__dict__[attr] = val for a name that starts with '_'
PFrame_setattr(w, id, attr, val) ==
    IF ~StartsWith(attr, "_") THEN Raise(w, "PythonCycError")
    ELSE ReturnNone([w EXCEPT !.heap[id] =
        CASE attr = STR_gotframe -> [@ EXCEPT !.gotframe = (val.n = 1)]
          [] attr = STR_isclass  -> [@ EXCEPT !.isclass = (val.n = 1)]
          [] OTHER               -> [@ EXCEPT !.slots = Put(@, attr, val.s)]])

\* PFrame.__setitem__(attr, val) for a string attr: the same body
PFrame_setitem(w, id, attr, val) ==
    IF ~StartsWith(attr, "_") THEN Raise(w, "PythonCycError")
    ELSE ReturnNone([w EXCEPT !.heap[id] =
        CASE attr = STR_gotframe -> [@ EXCEPT !.gotframe = (val.n = 1)]
          [] attr = STR_isclass  -> [@ EXCEPT !.isclass = (val.n = 1)]
          [] OTHER               -> [@ EXCEPT !.slots = Put(@, attr, val.s)]])

\* PFrame.__setitem__(attr, val) for an int attr: attr.startswith does not exist
PFrame_setitem_int(w, id, i, val) == Raise(w, "AttributeError")

\* the attributes get_major_classes reads, in its order
MajorAttrs == [i \in 1..5 |-> convertLispIdtoPythonId(MajorClasses[i])]

RECURSIVE get_major_classes_touch(_, _, _)
\* self.reactions; self.pathways; self.genes; self.compounds; self.proteins
get_major_classes_touch(w, g, attrs) ==
    IF Len(attrs) = 0 THEN w
    ELSE LET Rest(w1) == IF Raised(w1) THEN w1
                         ELSE get_major_classes_touch(w1, g, Tail(attrs))
         IN  Rest(PGDB_getattr(w, g, attrs[1], "nil"))

RECURSIVE get_major_classes_fetch(_, _, _, _)
\* self.get_frame_objects([f.frameid for f in self.<attr>.instances]) for each
\* attr; orders[i] is the iteration order of the dict of the i-th answer
get_major_classes_fetch(w, g, attrs, orders) ==
    IF Len(attrs) = 0 THEN ReturnNone(w)
    ELSE LET Fetched(w3) == IF Raised(w3) THEN w3
                            ELSE get_major_classes_fetch(w3, g, Tail(attrs), Tail(orders))
             Listed(w2) ==
                 IF Raised(w2) THEN w2
                 ELSE IF w2.kind # "list" THEN Raise(w2, "TypeError")   \* for f in None
                 ELSE Fetched(get_frame_objects(
                          w2, g, [i \in 1..Len(w2.ids) |-> w2.heap[w2.ids[i]].frameid],
                          orders[1]))
             Got(w1) ==
                 IF Raised(w1) THEN w1
                 ELSE IF w1.kind # "PFrame" THEN Raise(w1, "AttributeError")  \* None.instances
                 ELSE Listed(PFrame_getattr(w1, w1.ids[1], STR_instances, "nil"))
         IN  Got(PGDB_getattr(w, g, attrs[1], "nil"))

\* PGDB.get_major_classes
get_major_classes(w, g, orders) ==
    LET Touched(w1) == IF Raised(w1) THEN w1
                       ELSE get_major_classes_fetch(w1, g, MajorAttrs, orders)
    IN  Touched(get_major_classes_touch(w, g, MajorAttrs))

----------------------------------------------------------------------------
(* The inputs of the operations.                                           *)

Orgids      == {"meta", "nope"}
AttrNames   == {<<"c","s">>, <<"t","_","1">>, <<"z","z">>}     \* meta.cs, meta.t_1, meta.zz
IndexNames  == {InstT1, <<"z","z">>}                           \* meta['T-1'], meta['zz']
ClassArgs   == {ClassCs, <<"N","o">>}
BarT1       == <<"|","T","-","1","|">>
\* PFrame(frameid, pgdb, getFrameData, isClass)
PFrameArgs  == {<<BarT1, FALSE, FALSE>>, <<<<"t","_","1">>, TRUE, FALSE>>}
FrameidLists == {<<InstT1>>, <<BarT1, InstU>>}
FieldAttrs  == {<<"n","_","m">>, SlotZ, <<"y","_","y">>}   \* f.n_m, f.Z, f.y_y
FieldItems  == {SlotNm, SlotY, STR_instances}              \* f['N-m'], f['Y.y'], f['instances']
Misses      == {"nil", "error"}

\* f.attr = val and f[attr] = val: the name and the value
PFrameWrites == {<<<<"n","_","m">>, VStr(<<"v">>)>>,       \* a field the frame may hold
                 <<SlotZ, VStr(<<"v">>)>>,                 \* a field no frame has
                 <<STR_frameid, VStr(<<"|","U","|">>)>>,
                 <<STR_instances, VList(<< >>)>>,
                 <<STR_gotframe, VBool(FALSE)>>,
                 <<<<"_","x">>, VStr(<<"v">>)>>}

\* the arguments of convertArgToLisp: the elements of lists and tuples ...
EncElems == {VStr(<<"a">>), VStr(<<"b">>), VStr(<<"c">>), VInt(5), VBool(FALSE), VNone,
             VSymbol(<<"s">>), VList(<<VStr(<<"a">>)>>)}
\* ... the lists and tuples of at most MaxLen elements ...
EncSeqs  == UNION {[1..k -> EncElems] : k \in 0..MaxLen}
\* ... and the values that are neither
EncAtoms == {VStr(<<"a">>), VStr(<<":", "k">>), VStr(<<"|", "F", "|">>), VStr(<<"a", " ", "b">>),
             VStr(<<"|", "F", " ", "G", "|">>), VStr(<<":", "k", " ", "v">>), VStr(<< >>),
             VInt(5), VInt(0), VInt(0 - 12), VBool(TRUE), VBool(FALSE), VNone,
             VPFrame(<<"|", "T", "-", "1", "|">>), VSymbol(<<"s">>), VDict}
EncArgs  == EncAtoms \cup {VList(xs) : xs \in EncSeqs} \cup {VTuple(xs) : xs \in EncSeqs}

\* the arguments of prepareFnCall: positional arguments ...
FnArgs   == {<< >>, <<VStr(<<"a">>)>>, <<VInt(5), VNone>>, <<VSymbol(<<"s">>)>>}
\* ... and keyword arguments a and b, in either iteration order of the dict
KwVals   == {VNone, VInt(5), VBool(FALSE), VBool(TRUE), VList(<< >>), VStr(<<":", "k">>),
             VSymbol(<<"s">>)}
KwArgs   == {<< >>}
            \cup {<<<<k, v>>>> : k \in {<<"a">>, <<"b">>}, v \in KwVals}
            \cup {<<<<<<"a">>, v1>>, <<<<"b">>, v2>>>> : v1 \in KwVals, v2 \in KwVals}
            \cup {<<<<<<"b">>, v2>>, <<<<"a">>, v1>>>> : v1 \in KwVals, v2 \in KwVals}

----------------------------------------------------------------------------
(* The state machine.                                                      *)

NoOperation == [op |-> "start", g |-> 0, o |-> 0, o2 |-> 0, arg |-> << >>, kind |-> "None",
                ids |-> << >>, val |-> << >>, exc |-> "", sent |-> << >>]

\* no call of sendQueryToPTools is in progress
NoCall == [pc |-> "none"]

\* the interpreter has imported pythoncyc
InitModule ==
    /\ heap  = << >>
    /\ pgdbs = << >>
    /\ last  = NoOperation
    /\ net   = NoCall

\* meta = pythoncyc.select_organism('meta') has returned
Init ==
    /\ heap  = << >>
    /\ pgdbs = <<[orgid |-> "meta", frames |-> << >>, dict |-> << >>]>>
    /\ last  = NoOperation
    /\ net   = NoCall

\* meta = pythoncyc.select_organism('meta') and a second call of it have returned
InitTwo ==
    /\ heap  = << >>
    /\ pgdbs = <<[orgid |-> "meta", frames |-> << >>, dict |-> << >>],
                 [orgid |-> "meta", frames |-> << >>, dict |-> << >>]>>
    /\ last  = NoOperation
    /\ net   = NoCall

\* the operation op on PGDB g / PFrame o (and PFrame o2) with argument arg ends
\* in world w
Commit2(op, g, o, o2, arg, w) ==
    /\ Len(w.heap) <= MaxObjs \/ Len(w.heap) = Len(heap)
    /\ heap'  = w.heap
    /\ pgdbs' = w.pgdbs
    /\ net'   = net
    /\ last'  = [op |-> op, g |-> g, o |-> o, o2 |-> o2, arg |-> arg, kind |-> w.kind,
                 ids |-> w.ids, val |-> w.val, exc |-> w.exc, sent |-> w.sent]

Commit(op, g, o, arg, w) == Commit2(op, g, o, 0, arg, w)

\* PGDB.__init__ without the raise statements: the object keeps _orgid "unknown"
M_PGDB_init_unchecked(w, orgid, miss) ==
    LET w1 == [w EXCEPT !.sent = Append(@, "orgid-exist-p")]
        g  == Len(w.pgdbs) + 1
    IN  [w1 EXCEPT !.pgdbs = Append(@, [orgid  |-> IF orgid \in KnownOrgids
                                                   THEN orgid ELSE UnknownOrgid,
                                        frames |-> << >>, dict |-> << >>]),
                   !.kind = "PGDB", !.ids = <<g>>]

\* PGDB.__init__ (pythoncyc.select_organism)
PGDB_init(w, orgid, miss) ==
    LET w1 == [w EXCEPT !.sent = Append(@, "orgid-exist-p")]
        g  == Len(w.pgdbs) + 1
    IN  IF orgid \notin KnownOrgids
        THEN Raise(w1, "PythonCycError")    \* not r, or PToolsError rewrapped
        ELSE [w1 EXCEPT !.pgdbs = Append(@, [orgid |-> orgid, frames |-> << >>, dict |-> << >>]),
                        !.kind = "PGDB", !.ids = <<g>>]

select_organism ==
    \E orgid \in Orgids, miss \in Misses :
        \E w \in {PGDB_init(World, orgid, miss)} :
            /\ Len(w.pgdbs) <= MaxPGDBs
            /\ Commit("PGDB", 0, 0, <<orgid>>, w)

PGDBGetAttr ==
    \E g \in 1..Len(pgdbs), attr \in AttrNames :
        Commit("PGDB.__getattr__", g, 0, attr, PGDB_getattr(World, g, attr, "nil"))

PGDBGetItem ==
    \E g \in 1..Len(pgdbs), index \in IndexNames :
        Commit("PGDB.__getitem__", g, 0, index, PGDB_getitem(World, g, index, "nil"))

GetClassData ==
    \E g \in 1..Len(pgdbs), c \in ClassArgs, getInstancesData \in BOOLEAN, miss \in Misses :
      /\ Len(heap) < MaxObjs
      /\        \E order \in Perms({KBInstancesOf(c)[i] : i \in 1..Len(KBInstancesOf(c))}) :
            Commit(IF getInstancesData THEN "get_class_data(True)" ELSE "get_class_data",
                   g, 0, c, get_class_data(World, g, c, getInstancesData, order, miss))

GetFrameObjects ==
    \E g \in 1..Len(pgdbs), frameids \in FrameidLists :
        \E order \in Perms(ServerGetFrameObjects(frameids)) :
            Commit("get_frame_objects", g, 0, Join(frameids, <<",">>),
                   get_frame_objects(World, g, frameids, order))

NewPFrame ==
    \E g \in 1..Len(pgdbs), a \in PFrameArgs, miss \in Misses :
      /\ Len(heap) < MaxObjs
      /\        Commit(IF a[2] THEN "PFrame(True)" ELSE "PFrame", g, 0, a[1],
               PFrame_init(World, a[1], g, a[2], a[3], miss))

PFrameGetAttr ==
    \E o \in 1..Len(heap), attr \in FieldAttrs :
        Commit("PFrame.__getattr__", 0, o, attr, PFrame_getattr(World, o, attr, "nil"))

PFrameGetItem ==
    \E o \in 1..Len(heap), attr \in FieldItems :
        Commit("PFrame.__getitem__", 0, o, attr, PFrame_getitem(World, o, attr, "nil"))

PFrameGetItemInt ==
    \E o \in 1..Len(heap), i \in 0..1 :
        Commit("PFrame.__getitem__(int)", 0, o, StrNat(i), PFrame_getitem_int(World, o, i))

PFrameEq ==
    \E o1 \in 1..Len(heap), o2 \in 1..Len(heap) :
        Commit2("PFrame.__eq__", 0, o1, o2, << >>, PFrame_eq(World, o1, o2))

PFrameNe ==
    \E o1 \in 1..Len(heap), o2 \in 1..Len(heap) :
        Commit2("PFrame.__ne__", 0, o1, o2, << >>, PFrame_ne(World, o1, o2))

PFrameEqStr ==
    \E o \in 1..Len(heap), frameid \in {BarT1, InstT1} :
        Commit("PFrame.__eq__(str)", 0, o, frameid, PFrame_eq_str(World, o, frameid))

PFrameSetAttr ==
    \E o \in 1..Len(heap), a \in PFrameWrites :
        Commit("PFrame.__setattr__", 0, o, a[1], PFrame_setattr(World, o, a[1], a[2]))

PFrameSetItem ==
    \E o \in 1..Len(heap), a \in PFrameWrites :
        Commit("PFrame.__setitem__", 0, o, a[1], PFrame_setitem(World, o, a[1], a[2]))

PFrameSetItemInt ==
    \E o \in 1..Len(heap), i \in 0..1 :
        Commit("PFrame.__setitem__(int)", 0, o, StrNat(i),
               PFrame_setitem_int(World, o, i, VStr(<<"v">>)))

GetMajorClasses ==
    \E g \in 1..Len(pgdbs) :
      \E o1 \in Perms({MajorInstances[1]}), o2 \in Perms({MajorInstances[2]}),
         o3 \in Perms({MajorInstances[3]}), o4 \in Perms({MajorInstances[4]}),
         o5 \in Perms({MajorInstances[5]}) :
        \E w \in {get_major_classes(World, g, <<o1, o2, o3, o4, o5>>)} :
            /\ Len(w.heap) <= MaxObjs + MaxMajorObjs
            /\ heap'  = w.heap
            /\ pgdbs' = w.pgdbs
            /\ net'   = net
            /\ last'  = [op |-> "get_major_classes", g |-> g, o |-> 0, o2 |-> 0,
                         arg |-> << >>, kind |-> w.kind, ids |-> w.ids, val |-> w.val,
                         exc |-> w.exc, sent |-> w.sent]

\* a call of the encoder is about to be made: last is the call and its arguments
InitEncoder ==
    /\ heap  = << >>
    /\ pgdbs = << >>
    /\ net   = NoCall
    /\ last \in {[op |-> "call", fn |-> "convertArgToLisp", arg |-> arg, inquote |-> inquote] :
                     arg \in EncArgs, inquote \in BOOLEAN}
                \cup {[op |-> "call", fn |-> "prepareFnCall", args |-> args, kwargs |-> kwargs] :
                     args \in FnArgs, kwargs \in KwArgs}

\* identifiers given to PFrame(frameid, pgdb): plain, wrapped in '|', and with a
\* '|' at one end only
IdStrings == {<<"T","-","1">>, BarT1, <<"|","a">>, <<"a","|">>, <<"c","s">>}

\* f = PFrame(frameid, pgdb)
NewPFrameById ==
    \E g \in 1..Len(pgdbs), frameid \in IdStrings :
      /\ Len(heap) < MaxObjs
      /\ Commit("PFrame", g, 0, frameid, PFrame_init(World, frameid, g, FALSE, FALSE, "nil"))

\* the value convertArgToLisp returns, as the result of an operation
ReturnEncoded(w, r) ==
    IF r.r = "str" THEN ReturnStr(w, r.s)
    ELSE IF r.r = "exc" THEN Raise(w, r.e) ELSE ReturnNone(w)

\* convertArgToLisp(f) and convertArgToLisp([f]) for a PFrame f
EncodePFrame ==
    \E o \in 1..Len(heap), inlist \in BOOLEAN :
        Commit(IF inlist THEN "convertArgToLisp([PFrame])" ELSE "convertArgToLisp(PFrame)",
               heap[o].pgdb, o, << >>,
               ReturnEncoded(World, convertArgToLisp(
                   IF inlist THEN VList(<<VPFrame(heap[o].frameid)>>)
                   ELSE VPFrame(heap[o].frameid), FALSE)))

\* the call returns: last is the call and its result
ConvertArgToLisp ==
    /\ last.op = "call" /\ last.fn = "convertArgToLisp"
    /\ last' = [op |-> "convertArgToLisp", arg |-> last.arg, inquote |-> last.inquote,
                result |-> convertArgToLisp(last.arg, last.inquote)]
    /\ UNCHANGED <<heap, pgdbs, net>>

PrepareFnCall ==
    /\ last.op = "call" /\ last.fn = "prepareFnCall"
    /\ last' = [op |-> "prepareFnCall", fn |-> <<"f">>, args |-> last.args,
                kwargs |-> last.kwargs,
                result |-> prepareFnCall(<<"f">>, last.args, last.kwargs)]
    /\ UNCHANGED <<heap, pgdbs, net>>

Next ==
    \/ PGDBGetAttr
    \/ PGDBGetItem
    \/ GetClassData
    \/ GetFrameObjects
    \/ NewPFrame
    \/ PFrameGetAttr
    \/ PFrameGetItem

Spec == Init /\ [][Next]_vars

\* the operations that create objects, and the comparisons and indexings of PFrames
NextCompare ==
    \/ select_organism
    \/ PGDBGetAttr
    \/ NewPFrame
    \/ PFrameGetItemInt
    \/ PFrameEq
    \/ PFrameNe
    \/ PFrameEqStr

SpecCompare == InitModule /\ [][NextCompare]_vars

\* the lookups that create PFrames, and the writes of their fields
NextWrite ==
    \/ PGDBGetAttr
    \/ PFrameSetAttr
    \/ PFrameSetItem
    \/ PFrameSetItemInt

SpecWrite == Init /\ [][NextWrite]_vars

\* the construction of PGDB objects and the lookups on them
NextSession ==
    \/ select_organism
    \/ PGDBGetAttr
    \/ PGDBGetItem
    \/ PFrameGetAttr

SpecSession == InitModule /\ [][NextSession]_vars

\* the construction of PFrames from identifiers and their encoding as arguments
NextIdentifier ==
    \/ NewPFrameById
    \/ EncodePFrame

SpecIdentifier == Init /\ [][NextIdentifier]_vars

\* the operations that put PFrames into the _frames of PGDBs
NextCache ==
    \/ PGDBGetAttr
    \/ GetFrameObjects
    \/ NewPFrame

SpecCache == InitTwo /\ [][NextCache]_vars

\* the bulk load, the lookups before and after it, and the reads of what it left
NextMajor ==
    \/ GetMajorClasses
    \/ PGDBGetAttr
    \/ PFrameGetItem
    \/ PFrameGetItemInt

SpecMajor == Init /\ [][NextMajor]_vars

\* the calls of the encoder
NextEncoder ==
    \/ ConvertArgToLisp
    \/ PrepareFnCall

SpecEncoder == InitEncoder /\ [][NextEncoder]_vars

----------------------------------------------------------------------------
(* The transport (PTools.py).  The answer of the server is a stream of     *)
(* bytes that s.recv hands over in chunks of any size; json.loads and      *)
(* int() are computed on the characters received.                          *)

RecvMax   == 4096    \* the most bytes one s.recv asks for
HeaderLen == 10      \* the characters of the length after 'L'

Min(a, b) == IF a <= b THEN a ELSE b

IsDigit(c)  == \E k \in 1..10 : DigitChars[k] = c
DigitVal(c) == (CHOOSE k \in 1..10 : DigitChars[k] = c) - 1

RECURSIVE NatOf(_)
\* the number written by the digits ds
NatOf(ds) == IF Len(ds) = 0 THEN 0
             ELSE 10 * NatOf(SubSeq(ds, 1, Len(ds) - 1)) + DigitVal(ds[Len(ds)])

WhiteSpace == {" ", "\n", "\t", "\r"}

RECURSIVE Strip(_)
\* s.strip()
Strip(s) ==
    IF Len(s) = 0 THEN s
    ELSE IF s[1] \in WhiteSpace THEN Strip(Tail(s))
    ELSE IF s[Len(s)] \in WhiteSpace THEN Strip(SubSeq(s, 1, Len(s) - 1))
    ELSE s

\* int(s) of a str: white space around an optional sign and decimal digits;
\* anything else raises ValueError (ok is FALSE)
IntOf(s) ==
    LET t      == Strip(s)
        signed == Len(t) > 0 /\ t[1] \in {"+", "-"}
        ds     == IF signed THEN Tail(t) ELSE t
    IN  IF Len(ds) > 0 /\ \A i \in 1..Len(ds) : IsDigit(ds[i])
        THEN [ok |-> TRUE,
              n  |-> IF signed /\ t[1] = "-" THEN 0 - NatOf(ds) ELSE NatOf(ds)]
        ELSE [ok |-> FALSE, n |-> 0]

\* the values json.loads returns
JNull     == [j |-> "None"]
JBool(b)  == [j |-> "bool", b |-> b]
JInt(n)   == [j |-> "int",  n |-> n]
JStr(s)   == [j |-> "str",  s |-> s]
JList(xs) == [j |-> "list", items |-> xs]
JDict(m)  == [j |-> "dict", map |-> m]

\* the decoder read a value v and stands at position i / found no value
POk(v, i) == [ok |-> TRUE,  v |-> v,     i |-> i]
PFail     == [ok |-> FALSE, v |-> JNull, i |-> 0]

\* s[i-1:].startswith(lit)
HasAt(s, i, lit) ==
    /\ i + Len(lit) - 1 <= Len(s)
    /\ SubSeq(s, i, i + Len(lit) - 1) = lit

RECURSIVE SkipWs(_, _)
SkipWs(s, i) == IF i <= Len(s) /\ s[i] \in WhiteSpace THEN SkipWs(s, i + 1) ELSE i

RECURSIVE DigitsEnd(_, _)
\* the position after the digits that start at i
DigitsEnd(s, i) == IF i <= Len(s) /\ IsDigit(s[i]) THEN DigitsEnd(s, i + 1) ELSE i

RECURSIVE StringEnd(_, _)
\* the position of the '"' that closes the string whose characters start at i,
\* 0 if there is none (the answers examined hold no '\' escapes)
StringEnd(s, i) ==
    IF i > Len(s) THEN 0
    ELSE IF s[i] = "\"" THEN i
    ELSE StringEnd(s, i + 1)

\* a JSON number at position i: an optional '-', then 0 or digits that do not
\* start with 0 (fractions and exponents are not among the answers examined)
ParseNumber(s, i) ==
    LET neg == s[i] = "-"
        d   == IF neg THEN i + 1 ELSE i
        e   == IF d <= Len(s) /\ s[d] = "0" THEN d + 1 ELSE DigitsEnd(s, d)
    IN  IF e = d THEN PFail
        ELSE POk(JInt(IF neg THEN 0 - NatOf(SubSeq(s, d, e - 1))
                      ELSE NatOf(SubSeq(s, d, e - 1))), e)

\* a JSON string whose opening '"' is at position i
ParseString(s, i) ==
    LET Closed(e) == IF e = 0 THEN PFail ELSE POk(JStr(SubSeq(s, i + 1, e - 1)), e + 1)
    IN  Closed(StringEnd(s, i + 1))

RECURSIVE ParseValue(_, _)
RECURSIVE ParseElems(_, _, _)
RECURSIVE ParseMembers(_, _, _)

\* the elements of an array from position i on, after the elements acc
ParseElems(s, i, acc) ==
    LET After(r, j) ==
            IF j > Len(s) THEN PFail
            ELSE IF s[j] = "," THEN ParseElems(s, SkipWs(s, j + 1), Append(acc, r.v))
            ELSE IF s[j] = "]" THEN POk(JList(Append(acc, r.v)), j + 1)
            ELSE PFail
        Got(r) == IF r.ok THEN After(r, SkipWs(s, r.i)) ELSE PFail
    IN  Got(ParseValue(s, i))

\* the members of an object from position i on, after the members m
ParseMembers(s, i, m) ==
    LET After(k, r, j) ==
            IF j > Len(s) THEN PFail
            ELSE IF s[j] = "," THEN ParseMembers(s, SkipWs(s, j + 1), Put(m, k.v.s, r.v))
            ELSE IF s[j] = "}" THEN POk(JDict(Put(m, k.v.s, r.v)), j + 1)
            ELSE PFail
        GotValue(k, r) == IF r.ok THEN After(k, r, SkipWs(s, r.i)) ELSE PFail
        Colon(k, j) ==
            IF j <= Len(s) /\ s[j] = ":" THEN GotValue(k, ParseValue(s, SkipWs(s, j + 1)))
            ELSE PFail
        GotKey(k) == IF k.ok THEN Colon(k, SkipWs(s, k.i)) ELSE PFail
    IN  IF i <= Len(s) /\ s[i] = "\"" THEN GotKey(ParseString(s, i)) ELSE PFail

\* the JSON value that starts at position i
ParseValue(s, i) ==
    LET Array(j)  == IF j <= Len(s) /\ s[j] = "]" THEN POk(JList(<< >>), j + 1)
                     ELSE ParseElems(s, j, << >>)
        Object(j) == IF j <= Len(s) /\ s[j] = "}" THEN POk(JDict(<< >>), j + 1)
                     ELSE ParseMembers(s, j, << >>)
    IN  IF i > Len(s) THEN PFail
        ELSE IF HasAt(s, i, <<"n","u","l","l">>) THEN POk(JNull, i + 4)
        ELSE IF HasAt(s, i, <<"t","r","u","e">>) THEN POk(JBool(TRUE), i + 4)
        ELSE IF HasAt(s, i, <<"f","a","l","s","e">>) THEN POk(JBool(FALSE), i + 5)
        ELSE IF s[i] = "\"" THEN ParseString(s, i)
        ELSE IF s[i] = "-" \/ IsDigit(s[i]) THEN ParseNumber(s, i)
        ELSE IF s[i] = "[" THEN Array(SkipWs(s, i + 1))
        ELSE IF s[i] = "{" THEN Object(SkipWs(s, i + 1))
        ELSE PFail

\* what recvAll returned: a str, or None
GotStr(s) == [k |-> "str",  s |-> s]
GotNone   == [k |-> "None", s |-> << >>]

\* json.loads(response): TypeError for None, ValueError for a str that is not
\* one JSON value with white space around it
json_loads(response) ==
    LET Whole(r) == IF r.ok /\ SkipWs(response.s, r.i) = Len(response.s) + 1
                    THEN [exc |-> "", v |-> r.v]
                    ELSE [exc |-> "ValueError", v |-> JNull]
    IN  IF response.k = "None" THEN [exc |-> "TypeError", v |-> JNull]
        ELSE Whole(ParseValue(response.s, SkipWs(response.s, 1)))

\* the message of the PToolsError raised for an ':error' answer, before %s
InternalErrorText ==
    <<"A","n"," ","i","n","t","e","r","n","a","l"," ","e","r","r","o",
    "r"," ","o","c","c","u","r","r","e","d"," ","i","n"," ","t","h",
    "e"," ","r","u","n","n","i","n","g"," ","P","a","t","h","w","a",
    "y"," ","T","o","o","l","s"," ","a","p","p","l","i","c","a","t",
    "i","o","n",":"," ">>

\* the message of the PythonCycError raised by sendAll, before the query and '.'
BrokeText ==
    <<"C","o","n","n","e","c","t","i","o","n"," ","t","o"," ","P","a",
    "t","h","w","a","y"," ","T","o","o","l","s"," ","b","r","o","k",
    "e"," ","w","h","i","l","e"," ","s","e","n","d","i","n","g"," ",
    "q","u","e","r","y"," ">>

ColonError == <<":","e","r","r","o","r">>

\* the state of a call: position, arguments and locals of sendQueryToPTools,
\* sendAll, recvAll, recvFixedLength and recvTimeOut, the socket s, the bytes
\* the server got (wire) and the bytes it sends that were not received yet
\* (stream), after which the connection is closed or stays silent (ending)
CallOf(query, hostname, stream, ending) ==
    [pc        |-> "call",
     query     |-> query,
     hostname  |-> hostname,
     input     |-> stream,
     stream    |-> stream,
     ending    |-> ending,
     sock      |-> "none",         \* "none", "open", "closed"
     sent_len  |-> 0,
     wire      |-> << >>,
     type      |-> "",
     lengthMsg |-> 0,
     pieces    |-> << >>,          \* ''.join(pieces)
     response  |-> GotNone,
     r         |-> JNull,          \* the value returned, when pc is "returned"
     exc       |-> "",
     msg       |-> << >>]

\* the call raises e with message msg
Raising(n, e, msg) == [n EXCEPT !.pc = "raised", !.exc = e, !.msg = msg]

\* sendAll sending the query from its start at every turn
M_SendSlice_restart(query, sent_len) == query

\* query[sent_len:]
SendSlice(query, sent_len) == SubSeq(query, sent_len + 1, Len(query))

\* recvFixedLength asking for 4096 bytes at every recv
M_RecvSize_whole(lengthMsg, nbBytesRecv) == RecvMax

\* min(lengthMsg - nbBytesRecv, 4096)
RecvSize(lengthMsg, nbBytesRecv) == Min(lengthMsg - nbBytesRecv, RecvMax)

\* s.recv handed over the first k bytes of the stream
Received(n, k) ==
    [n EXCEPT !.pieces = @ \o SubSeq(n.stream, 1, k),
              !.stream = SubSeq(n.stream, k + 1, Len(n.stream))]

\* recvFixedLength returns ''.join(pieces): to int() for the header, and as the
\* response for the payload
FixedLengthReturn(n) ==
    LET Header(l) == IF l.ok
                     THEN [n EXCEPT !.pc = "payload", !.lengthMsg = l.n, !.pieces = << >>]
                     ELSE Raising(n, "ValueError", << >>)
    IN  IF n.pc = "header" THEN Header(IntOf(n.pieces))
        ELSE [n EXCEPT !.pc = "loads", !.response = GotStr(n.pieces)]

\* the end of sendQueryToPTools without the test for ':error'
M_Decoded_returns(n, d) ==
    IF d.exc # "" THEN Raising(n, d.exc, << >>)
    ELSE [n EXCEPT !.pc = "returned", !.sock = "closed", !.r = d.v]

\* the end of sendQueryToPTools, from r = json.loads(response) on
Decoded(n, d) ==
    IF d.exc # "" THEN Raising(n, d.exc, << >>)
    ELSE IF d.v.j = "str" /\ HasAt(d.v.s, 1, ColonError)
    THEN [Raising(n, "PToolsError", InternalErrorText \o d.v.s) EXCEPT !.sock = "closed"]
    ELSE [n EXCEPT !.pc = "returned", !.sock = "closed", !.r = d.v]

RECURSIVE ZeroPad(_, _)
\* the digits ds with zeros before them up to w characters
ZeroPad(ds, w) == IF Len(ds) >= w THEN ds ELSE ZeroPad(<<"0">> \o ds, w)

\* an 'L' message of the server that announces n characters
LMessage(n, payload) == <<"L">> \o ZeroPad(StrNat(n), HeaderLen) \o payload

OkTrue    == <<"{","\"","o","k","\"",":"," ","t","r","u","e","}">>   \* {"ok": true}
ErrorX    == <<"\"",":","e","r","r","o","r"," ","x","\"">>           \* ":error x"
ListOneA  == <<"[","1",","," ","\"","a","\"","]">>                   \* [1, "a"]
PlainStr  == <<"\"","e",":","e","r","r","o","r","\"">>               \* "e:error"

\* the answers of the server that are examined
Responses ==
    {LMessage(13, OkTrue),                      \* one character fewer than announced
     LMessage(12, OkTrue),
     LMessage(4, <<"n","u","l","l","[","1","]">>),   \* more bytes than announced
     LMessage(10, ErrorX),
     LMessage(8, ListOneA),
     LMessage(9, PlainStr),
     LMessage(2, <<"{","\"">>),                 \* not JSON
     <<"L","0","0","0","0","0","0","0","0","x","2","1","2">>,    \* no number after 'L'
     << >>,                                     \* nothing
     <<"A">> \o ListOneA,
     <<"X","7">>}                               \* neither 'A' nor 'L'

Queries   == {<<"(","a",")">>, <<"(","f"," ","'","b",")">>}
Hostnames == {"", "localhost"}
Endings   == {"close", "silent"}

\* sendQueryToPTools(query) is called
InitTransport ==
    /\ heap  = << >>
    /\ pgdbs = << >>
    /\ last  = NoOperation
    /\ net \in {CallOf(query, hostname, stream, ending) :
                   query \in Queries, hostname \in Hostnames,
                   stream \in Responses, ending \in Endings}

\* sendQueryToPTools up to the try statement
SendQueryToPTools ==
    /\ net.pc = "call"
    /\ net' = IF net.hostname = "" THEN Raising(net, "PToolsError", << >>)
              ELSE [net EXCEPT !.pc = "connect"]
    /\ UNCHANGED <<heap, pgdbs, last>>

\* the try statement of sendQueryToPTools: the socket is created, and connect
\* succeeds, fails with a socket.error of two arguments (PToolsError), or times
\* out with socket.timeout('timed out'), for which msg[1] raises IndexError
Connect ==
    /\ net.pc = "connect"
    /\ \/ net' = [net EXCEPT !.pc = "sendAll", !.sock = "open"]
       \/ net' = [Raising(net, "PToolsError", << >>) EXCEPT !.sock = "open"]
       \/ net' = [Raising(net, "IndexError", << >>) EXCEPT !.sock = "open"]
    /\ UNCHANGED <<heap, pgdbs, last>>

\* one turn of the loop of sendAll: s.send accepts nb bytes of query[sent_len:],
\* or raises socket.error; the loop ends when sent_len reaches len(query)
SendAll ==
    /\ net.pc = "sendAll"
    /\ IF net.sent_len < Len(net.query)
       THEN \/ \E nb \in 0..Len(SendSlice(net.query, net.sent_len)) :
                 net' = IF nb = 0
                        THEN Raising(net, "PythonCycError", BrokeText \o net.query \o <<".">>)
                        ELSE [net EXCEPT !.sent_len = @ + nb,
                                         !.wire = @ \o SubSeq(SendSlice(net.query, net.sent_len), 1, nb)]
            \/ net' = Raising(net, "socket.error", << >>)
       ELSE net' = [net EXCEPT !.pc = "recvAll"]
    /\ UNCHANGED <<heap, pgdbs, last>>

\* recvAll: type = s.recv(1) and the choice of the way to receive the rest
RecvAll ==
    /\ net.pc = "recvAll"
    /\ IF net.stream # << >>
       THEN net' = [net EXCEPT !.type = net.stream[1], !.stream = Tail(@), !.pieces = << >>,
                               !.pc = IF net.stream[1] = "L" THEN "header" ELSE "recvTimeOut"]
       ELSE IF net.ending = "close"
       THEN net' = [net EXCEPT !.type = "", !.pieces = << >>, !.pc = "recvTimeOut"]
       ELSE net' = Raising(net, "socket.timeout", << >>)
    /\ UNCHANGED <<heap, pgdbs, last>>

\* one turn of the loop of recvFixedLength, for the 10 characters of the length
\* and then for the message
RecvFixedLength ==
    /\ net.pc \in {"header", "payload"}
    /\ LET lengthMsg == IF net.pc = "header" THEN HeaderLen ELSE net.lengthMsg
       IN  IF Len(net.pieces) < lengthMsg
           THEN IF net.stream # << >>
                THEN \E k \in 1..Min(RecvSize(lengthMsg, Len(net.pieces)), Len(net.stream)) :
                        net' = Received(net, k)
                ELSE IF net.ending = "close"
                THEN net' = FixedLengthReturn(net)          \* piece == ''
                ELSE net' = Raising(net, "socket.timeout", << >>)
           ELSE net' = FixedLengthReturn(net)
    /\ UNCHANGED <<heap, pgdbs, last>>

\* one turn of the loop of recvTimeOut: socket.recv(4096) gets some bytes, or the
\* time is over (timeOut seconds after a piece, 60 seconds with no piece)
RecvTimeOut ==
    /\ net.pc = "recvTimeOut"
    /\ \/ /\ net.stream # << >>
          /\ \E k \in 1..Min(RecvMax, Len(net.stream)) : net' = Received(net, k)
       \/ net' = [net EXCEPT !.pc = "loads",
                             !.response = IF net.pieces = << >> THEN GotNone
                                          ELSE GotStr(net.pieces)]
    /\ UNCHANGED <<heap, pgdbs, last>>

\* r = json.loads(response); s.close(); the test for ':error'; return r
Decode ==
    /\ net.pc = "loads"
    /\ net' = Decoded(net, json_loads(net.response))
    /\ UNCHANGED <<heap, pgdbs, last>>

NextTransport ==
    \/ SendQueryToPTools
    \/ Connect
    \/ SendAll
    \/ RecvAll
    \/ RecvFixedLength
    \/ RecvTimeOut
    \/ Decode

SpecTransport == InitTransport /\ [][NextTransport]_vars

\* the thread that runs sendAll goes on running
SpecTransportFair == SpecTransport /\ WF_vars(SendAll)

----------------------------------------------------------------------------
(* Vocabulary of the properties.                                           *)

\* the PFrame that PGDB.__getattr__ finds for key k without asking the server
\* (0 for none), in the PGDB objects ps
Resolved(ps, g, k) ==
    IF k \in DOMAIN ps[g].dict THEN ps[g].dict[k]
    ELSE IF k \in DOMAIN ps[g].frames THEN ps[g].frames[k]
    ELSE 0

\* the fields the remote frame of PFrame obj has, under their Python names
RemoteFields(obj) ==
    IF Unbar(obj.frameid) \in KBFrames
    THEN DOMAIN StoreSlots(<< >>, KBSlots(Unbar(obj.frameid)))
    ELSE {}

FieldReads == {"PFrame.__getattr__", "PFrame.__getitem__"}

\* PFrame obj does not hold field attr locally
NotHeld(obj, attr) ==
    /\ attr \notin DictKeys(obj)
    /\ convertLispIdtoPythonId(attr) \notin DictKeys(obj)

----------------------------------------------------------------------------
(* C1. Reference stability of the frame cache: once a normalized           *)
(* identifier resolves to a PFrame of a PGDB, every later resolution of    *)
(* it on that PGDB gives the very same object, and the entry of _frames    *)
(* for the key is never replaced by another object.                        *)
C1_ReferenceStability ==
    [][\A g \in 1..Len(pgdbs) :
          /\ \A k \in DOMAIN pgdbs[g].frames : pgdbs'[g].frames[k] = pgdbs[g].frames[k]
          /\ \A k \in (DOMAIN pgdbs[g].frames) \cup (DOMAIN pgdbs[g].dict) :
                Resolved(pgdbs', g, k) = Resolved(pgdbs, g, k)]_vars

(* C2. Memoization of resolution: PGDB.__getattr__ of a name that already  *)
(* resolves to a PFrame returns that PFrame and calls nothing on the       *)
(* server; two successive __getattr__ of one name return the same object.  *)
C2_Memoization ==
    [][last'.op = "PGDB.__getattr__" =>
          /\ Resolved(pgdbs, last'.g, convertLispIdtoPythonId(last'.arg)) # 0 =>
                /\ last'.exc = ""
                /\ last'.kind = "PFrame"
                /\ last'.ids = <<Resolved(pgdbs, last'.g, convertLispIdtoPythonId(last'.arg))>>
                /\ last'.sent = << >>
          /\ (last.op = "PGDB.__getattr__" /\ last.kind = "PFrame"
                /\ last.g = last'.g /\ last.arg = last'.arg) =>
                /\ last'.ids = last.ids
                /\ last'.sent = << >>]_vars

\* a resolution answered from the cache
C2_Witness ==
    /\ last.op = "PGDB.__getattr__"
    /\ last.kind = "PFrame"
    /\ last.sent = << >>
    /\ last.ids = <<pgdbs[last.g].frames[convertLispIdtoPythonId(last.arg)]>>

(* C3. Lazy field fetch happens exactly once: on a PFrame that is not      *)
(* fetched, reading a field it does not hold makes exactly one call to the *)
(* server, after which the PFrame holds every field of the remote frame    *)
(* and is marked fetched; reading an absent field of a fetched PFrame      *)
(* makes no call and returns None.                                         *)
C3_LazyFetchOnce ==
    [][(last'.op \in FieldReads /\ NotHeld(heap[last'.o], last'.arg)) =>
          IF heap[last'.o].gotframe
          THEN last'.sent = << >> /\ last'.kind = "None" /\ last'.exc = ""
          ELSE /\ Len(last'.sent) = 1
               /\ heap'[last'.o].gotframe
               /\ RemoteFields(heap[last'.o]) \subseteq DOMAIN heap'[last'.o].slots]_vars

(* C4. Reading a field the remote frame does not have returns None and     *)
(* raises nothing, for a fetched and for an unfetched PFrame.              *)
C4_AbsentFieldIsNone ==
    (/\ last.op \in FieldReads
     /\ last.arg # STR_instances
     /\ convertLispIdtoPythonId(last.arg) \notin RemoteFields(heap[last.o]))
        => (last.exc = "" /\ last.kind = "None")

(* C5. Once a PFrame is fetched it stays fetched, and reading a field it   *)
(* does not hold returns None and calls nothing on the server.             *)
C5_FetchedNeverRefetches ==
    [][/\ \A o \in 1..Len(heap) : heap[o].gotframe => heap'[o].gotframe
       /\ (last'.op \in FieldReads /\ heap[last'.o].gotframe
              /\ NotHeld(heap[last'.o], last'.arg)) =>
             (last'.kind = "None" /\ last'.exc = "" /\ last'.sent = << >>
                 /\ heap' = heap /\ pgdbs' = pgdbs)]_vars

\* a fetched PFrame was asked for a field it does not hold
C5_Witness ==
    /\ last.op \in FieldReads
    /\ heap[last.o].gotframe
    /\ NotHeld(heap[last.o], last.arg)
    /\ last.kind = "None"

(* C6. Equality of PFrames is structural: a == b is True exactly when the  *)
(* PGDBs of a and b have the same orgid and a and b have the same frameid, *)
(* also for two distinct objects; a != b is its negation.                  *)
C6_StructuralEquality ==
    LET same == /\ pgdbs[heap[last.o].pgdb].orgid = pgdbs[heap[last.o2].pgdb].orgid
                /\ heap[last.o].frameid = heap[last.o2].frameid
    IN  /\ last.op = "PFrame.__eq__" =>
              (last.exc = "" /\ last.val = IF same THEN <<"True">> ELSE <<"False">>)
        /\ last.op = "PFrame.__ne__" =>
              (last.exc = "" /\ last.val = IF same THEN <<"False">> ELSE <<"True">>)

(* C7. get_frame_objects makes one call to the server and returns, for     *)
(* every identifier, the PFrame the PGDB already holds for it when there   *)
(* is one and a new PFrame only otherwise; every PFrame returned is marked *)
(* fetched and holds the fetched fields.                                   *)
C7_BulkFetchReuses ==
    [][last'.op = "get_frame_objects" =>
          /\ last'.exc = ""
          /\ last'.sent = <<"get-frame-objects">>
          /\ \A i \in 1..Len(last'.ids) :
                LET f == last'.ids[i]
                    k == convertLispIdtoPythonId(heap'[f].frameid)
                IN  /\ heap'[f].gotframe
                    /\ RemoteFields(heap'[f]) \subseteq DOMAIN heap'[f].slots
                    /\ IF Resolved(pgdbs, last'.g, k) # 0
                       THEN f = Resolved(pgdbs, last'.g, k)
                       ELSE f > Len(heap)]_vars

\* the name is not cached by the PGDB and __getattr__ goes to the server
Uncached(g, attr) == Resolved(pgdbs, g, convertLispIdtoPythonId(attr)) = 0

\* sub in s, for strings
Contains(s, sub) ==
    \E i \in 1..(Len(s) - Len(sub) + 1) : SubSeq(s, i, i + Len(sub) - 1) = sub

RECURSIVE SymbolsStringsLists(_)
\* v is a Symbol, a string, or a list of such values (nested to any depth)
SymbolsStringsLists(v) ==
    \/ v.t \in {"Symbol", "str"}
    \/ v.t = "list" /\ \A i \in 1..Len(v.items) : SymbolsStringsLists(v.items[i])

\* s.count(c)
CountChar(s, c) == Cardinality({i \in 1..Len(s) : s[i] = c})

(* C8. Class resolution: PGDB.__getattr__ of an uncached name that the     *)
(* server knows as a class returns a new class PFrame that holds the slots *)
(* of the class and whose instances are one new PFrame per instance the    *)
(* server lists, in that order, each with its frameid only and not         *)
(* fetched; the class and its instances belong to this PGDB and are the    *)
(* entries of its _frames.                                                 *)
C8_ClassResolution ==
    [][(/\ last'.op = "PGDB.__getattr__"
        /\ Uncached(last'.g, last'.arg)
        /\ ServerClassNameP(last'.arg) # << >>) =>
          LET g    == last'.g
              c    == ServerClassNameP(last'.arg)
              f    == last'.ids[1]
              inst == heap'[f].instances
          IN  /\ last'.exc = "" /\ last'.kind = "PFrame" /\ Len(last'.ids) = 1
              /\ f > Len(heap)
              /\ heap'[f].isclass /\ heap'[f].hasinst
              /\ heap'[f].frameid = <<"|">> \o c \o <<"|">>
              /\ heap'[f].slots = StoreSlots(<< >>, KBSlots(c))
              /\ heap'[f].pgdb = g
              /\ pgdbs'[g].frames[convertLispIdtoPythonId(last'.arg)] = f
              /\ Len(inst) = Len(KBInstancesOf(c))
              /\ \A i \in 1..Len(inst) :
                    /\ inst[i] > Len(heap)
                    /\ \A j \in 1..Len(inst) : inst[i] = inst[j] => i = j
                    /\ heap'[inst[i]].frameid = <<"|">> \o KBInstancesOf(c)[i] \o <<"|">>
                    /\ ~heap'[inst[i]].gotframe
                    /\ ~heap'[inst[i]].isclass
                    /\ heap'[inst[i]].slots = << >>
                    /\ heap'[inst[i]].pgdb = g
                    /\ pgdbs'[g].frames[convertLispIdtoPythonId(KBInstancesOf(c)[i])] = inst[i]]_vars

\* a class was resolved through the server and has its two instances
C8_Witness ==
    /\ last.op = "PGDB.__getattr__"
    /\ last.sent # << >>
    /\ last.kind = "PFrame"
    /\ heap[last.ids[1]].isclass
    /\ Len(heap[last.ids[1]].instances) = 2

(* C9. Instance resolution: PGDB.__getattr__ of an uncached name that the  *)
(* server knows as an instance and not as a class returns a new PFrame     *)
(* with the real name of the instance, all its fields fetched by one       *)
(* get-frame-object call, marked fetched, and stored in _frames under the  *)
(* normalized name.                                                        *)
C9_InstanceResolution ==
    [][(/\ last'.op = "PGDB.__getattr__"
        /\ Uncached(last'.g, last'.arg)
        /\ ServerClassNameP(last'.arg) = << >>
        /\ ServerFrameidInstanceP(last'.arg) # << >>) =>
          LET g == last'.g
              r == ServerFrameidInstanceP(last'.arg)
              f == last'.ids[1]
          IN  /\ last'.exc = "" /\ last'.kind = "PFrame" /\ Len(last'.ids) = 1
              /\ f = Len(heap) + 1 /\ Len(heap') = Len(heap) + 1
              /\ heap'[f].frameid = <<"|">> \o r \o <<"|">>
              /\ ~heap'[f].isclass
              /\ heap'[f].gotframe
              /\ heap'[f].slots = StoreSlots(<< >>, KBSlots(r))
              /\ heap'[f].pgdb = g
              /\ pgdbs'[g].frames[convertLispIdtoPythonId(last'.arg)] = f
              /\ last'.sent = <<"class-name-p", "frameid-instance-p", "get-frame-object">>]_vars

\* an instance was resolved through the server
C9_Witness ==
    /\ last.op = "PGDB.__getattr__"
    /\ last.sent = <<"class-name-p", "frameid-instance-p", "get-frame-object">>
    /\ last.kind = "PFrame"
    /\ heap[last.ids[1]].gotframe
    /\ ~heap[last.ids[1]].isclass

(* C10. A probe miss is silent: PGDB.__getattr__ of an uncached name that  *)
(* the server knows neither as a class nor as an instance returns None,    *)
(* raises nothing and changes neither the PGDB nor any PFrame.             *)
C10_ProbeMissSilent ==
    [][(/\ last'.op = "PGDB.__getattr__"
        /\ Uncached(last'.g, last'.arg)
        /\ ServerClassNameP(last'.arg) = << >>
        /\ ServerFrameidInstanceP(last'.arg) = << >>) =>
          /\ last'.kind = "None"
          /\ last'.exc = ""
          /\ pgdbs' = pgdbs
          /\ heap' = heap]_vars

\* the server was asked both questions about a name and nothing was returned
C10_Witness ==
    /\ last.op = "PGDB.__getattr__"
    /\ last.sent = <<"class-name-p", "frameid-instance-p">>
    /\ last.kind = "None"
    /\ last.exc = ""

C12_InitValidates ==
    [][/\ last'.op = "PGDB" =>
            /\ last'.sent = <<"orgid-exist-p">>
            /\ IF last'.arg[1] \in KnownOrgids
               THEN /\ last'.exc = "" /\ last'.kind = "PGDB"
                    /\ last'.ids = <<Len(pgdbs) + 1>>
                    /\ pgdbs' = Append(pgdbs, [orgid |-> last'.arg[1],
                                               frames |-> << >>, dict |-> << >>])
               ELSE /\ last'.exc = "PythonCycError" /\ last'.kind = "None"
                    /\ pgdbs' = pgdbs
       /\ \A g \in 1..Len(pgdbs') :
            /\ pgdbs'[g].orgid \in KnownOrgids
            /\ pgdbs'[g].orgid # UnknownOrgid
       /\ (last'.g \in 1..Len(pgdbs') /\ last'.op = "PGDB.__getattr__"
           /\ Uncached(last'.g, last'.arg)) => last'.sent # << >>]_vars

\* a construction failed while a PGDB object exists
C12_Witness ==
    /\ last.op = "PGDB"
    /\ last.arg = <<"nope">>
    /\ last.exc = "PythonCycError"
    /\ Len(pgdbs) >= 1

(* C13. get_major_classes loads the data of all instances: after it        *)
(* returns, every PFrame in the 'instances' list of each of the classes    *)
(* reactions, pathways, genes, compounds and proteins is marked fetched    *)
(* and holds the fields of its remote frame.                               *)
C13_MajorClassesLoaded ==
    [][(last'.op = "get_major_classes" /\ last'.exc = "") =>
          \A i \in 1..5 :
              LET c == Resolved(pgdbs', last'.g, MajorAttrs[i])
              IN  /\ c # 0
                  /\ heap'[c].hasinst
                  /\ \A k \in 1..Len(heap'[c].instances) :
                        LET f == heap'[heap'[c].instances[k]]
                        IN  /\ f.gotframe
                            /\ RemoteFields(f) \subseteq DOMAIN f.slots]_vars

(* C14. get_class_data stores the instances in both modes: with            *)
(* getInstancesData false and with getInstancesData true, the 'instances'  *)
(* field of the class PFrame it returns lists one PFrame per instance      *)
(* identifier the server returned, fetched ones when getInstancesData is   *)
(* true.                                                                   *)
C14_InstancesInBothModes ==
    [][(last'.op \in {"get_class_data", "get_class_data(True)"} /\ last'.exc = "") =>
          LET f    == heap'[last'.ids[1]]
              ids  == KBInstancesOf(Unbar(f.frameid))
              held == f.instances
          IN  /\ f.hasinst
              /\ Len(held) = Len(ids)
              /\ {heap'[held[k]].frameid : k \in 1..Len(held)}
                     = {StoredFrameid(ids[k]) : k \in 1..Len(ids)}
              /\ last'.op = "get_class_data(True)" =>
                     \A k \in 1..Len(held) : heap'[held[k]].gotframe]_vars

(* C15. Boolean before numeric: convertArgToLisp(True) returns 't' and     *)
(* convertArgToLisp(False) returns 'nil', with inquote false and true.     *)
C15_BooleanBeforeNumeric ==
    (last.op = "convertArgToLisp" /\ last.arg.t = "bool") =>
        last.result = RStr(IF last.arg.n = 1 THEN <<"t">> ELSE <<"n", "i", "l">>)

(* C16. Keyword omission: prepareFnCall('f', a=None, b=5) returns exactly  *)
(* the string (f :b 5); in general a keyword whose value is None adds no   *)
(* token and no whitespace to the call string.                             *)
C16_KeywordOmission ==
    last.op = "prepareFnCall" =>
        /\ (/\ last.args = << >>
            /\ Len(last.kwargs) = 2
            /\ {last.kwargs[1], last.kwargs[2]} = {<<<<"a">>, VNone>>, <<<<"b">>, VInt(5)>>})
              => last.result = RStr(<<"(", "f", " ", ":", "b", " ", "5", ")">>)
        /\ last.result = prepareFnCall(last.fn, last.args,
                                       SelectSeq(last.kwargs, LAMBDA kv : kv[2] # VNone))

(* C17. Only None omits a keyword: a keyword argument of prepareFnCall     *)
(* whose value is False or an empty list is not dropped, and a False value *)
(* is written ':key nil' in the call string.                               *)
C17_OnlyNoneOmits ==
    last.op = "prepareFnCall" =>
        \A i \in 1..Len(last.kwargs) :
            LET key == last.kwargs[i][1]
                v   == last.kwargs[i][2]
            IN  /\ v \in {VBool(FALSE), VList(<< >>)} =>
                      /\ last.result.r = "str"
                         => Contains(last.result.s, <<":">> \o key \o <<" ">>)
                /\ (v = VBool(FALSE) /\ last.result.r = "str") =>
                      Contains(last.result.s, <<":">> \o key \o <<" ", "n", "i", "l">>)

(* C18. List versus dotted pair: convertArgToLisp(["a","b","c"]) returns   *)
(* '("a" "b" "c"), the tuple ("a","b","c") is encoded '("a" "b" . "c") and *)
(* the tuple ("a",) is encoded '(nil . "a").                               *)
C18_ListVersusDottedPair ==
    (last.op = "convertArgToLisp" /\ ~last.inquote) =>
        /\ last.arg = VList(<<VStr(<<"a">>), VStr(<<"b">>), VStr(<<"c">>)>>) =>
              last.result = RStr(<<"'", "(", "\"", "a", "\"", " ", "\"", "b", "\"", " ", "\"", "c", "\"", ")">>)
        /\ last.arg = VTuple(<<VStr(<<"a">>), VStr(<<"b">>), VStr(<<"c">>)>>) =>
              last.result = RStr(<<"'", "(", "\"", "a", "\"", " ", "\"", "b", "\"", " ", ".", " ", "\"", "c", "\"", ")">>)
        /\ last.arg = VTuple(<<VStr(<<"a">>)>>) =>
              last.result = RStr(<<"'", "(", "n", "i", "l", " ", ".", " ", "\"", "a", "\"", ")">>)

(* C19. String classification in convertArgToLisp: a string that starts    *)
(* and ends with '|' and has no space is emitted as it is, with a leading  *)
(* quote unless in a quoted context; a string that starts with ':' and has *)
(* no space is emitted as it is, never quoted; every other string is       *)
(* emitted between double quotes.                                          *)
C19_StringClassification ==
    (last.op = "convertArgToLisp" /\ last.arg.t = "str") =>
        LET s       == last.arg.s
            nospace == ~Contains(s, <<" ">>)
        IN  last.result =
                IF StartsWith(s, "|") /\ EndsWith(s, "|") /\ nospace
                THEN RStr((IF last.inquote THEN << >> ELSE <<"'">>) \o s)
                ELSE IF StartsWith(s, ":") /\ nospace
                THEN RStr(s)
                ELSE RStr(<<"\"">> \o s \o <<"\"">>)

(* C20. Encoding is total or fails fast: convertArgToLisp returns a string *)
(* or raises, and never returns a non-string such as None for a tuple, a   *)
(* dict or a Symbol; prepareFnCall never writes the text of a value that   *)
(* was not encoded into the call string.                                   *)
C20_TotalOrFailFast ==
    /\ last.op = "convertArgToLisp" => last.result.r \in {"str", "exc"}
    /\ (last.op = "prepareFnCall" /\ last.result.r = "str") =>
           \A i \in 1..Len(last.kwargs) :
               last.kwargs[i][2] # VNone =>
                   convertArgToLisp(last.kwargs[i][2], FALSE).r = "str"

(* C21. Quoted-context suppression: the encoding of a list, nested to any  *)
(* depth, whose elements are Symbols, strings or lists is a string with    *)
(* exactly one quote character, at position 0 before the outermost         *)
(* parenthesis; no element, a Symbol included, gets a quote of its own.    *)
C21_QuotedContext ==
    (/\ last.op = "convertArgToLisp"
     /\ ~last.inquote
     /\ last.arg.t = "list"
     /\ SymbolsStringsLists(last.arg)) =>
        /\ last.result.r = "str"
        /\ Len(last.result.s) >= 2
        /\ last.result.s[1] = "'"
        /\ last.result.s[2] = "("
        /\ CountChar(last.result.s, "'") = 1

\* PFrame.__init__ stored frameid f: frameid itself if it came wrapped in '|',
\* and otherwise '|' + frameid + '|', from which frameid is got back
WrappedOnce(frameid, f) ==
    IF StartsWith(frameid, "|") /\ EndsWith(frameid, "|")
    THEN f = frameid
    ELSE f = <<"|">> \o frameid \o <<"|">> /\ Unbar(f) = frameid

(* C22. Identifier round trip: a PFrame built from an identifier s that is *)
(* not wrapped in '|' has frameid '|'+s+'|', a wrapped s is kept as it is  *)
(* and not wrapped a second time; convertArgToLisp of the PFrame, at top   *)
(* level and inside a list, emits exactly the frameid, with no quote       *)
(* before it and no re-encoding, so that stripping the wrapper gives s.    *)
C22_IdentifierRoundTrip ==
    [][/\ (last'.op = "PFrame" /\ Len(heap') = Len(heap) + 1) =>
              WrappedOnce(last'.arg, heap'[Len(heap')].frameid)
       /\ last'.op = "convertArgToLisp(PFrame)" =>
              /\ last'.exc = ""
              /\ last'.val = heap[last'.o].frameid
       /\ last'.op = "convertArgToLisp([PFrame])" =>
              /\ last'.exc = ""
              /\ last'.val = <<"'", "(">> \o heap[last'.o].frameid \o <<")">>]_vars

\* a PFrame built from '|a' and one built from '|T-1|' exist, and the first was
\* encoded inside a list
C22_Witness ==
    /\ last.op = "convertArgToLisp([PFrame])"
    /\ heap[last.o].frameid = <<"|", "|", "a", "|">>
    /\ last.val = <<"'", "(", "|", "|", "a", "|", ")">>
    /\ \E o \in 1..Len(heap) : heap[o].frameid = BarT1

(* C27. Round trips of a class resolution: the first PGDB.__getattr__ of   *)
(* an uncached class name makes exactly two calls on the server, the       *)
(* class-name check and one fetch that brings the slots of the class and   *)
(* the list of its instances; the second resolution of the name, answered  *)
(* from the cache, makes none, so that the total stays at two.             *)
C27_TwoRoundTrips ==
    [][/\ (/\ last'.op = "PGDB.__getattr__"
           /\ Uncached(last'.g, last'.arg)
           /\ ServerClassNameP(last'.arg) # << >>) =>
              /\ Len(last'.sent) = 2
              /\ last'.sent[1] = "class-name-p"
       /\ (/\ last'.op = "PGDB.__getattr__"
           /\ last.op = "PGDB.__getattr__"
           /\ last.g = last'.g /\ last.arg = last'.arg
           /\ ServerClassNameP(last'.arg) # << >>) =>
              Len(last.sent) + Len(last'.sent) = 2]_vars

(* C29. A failed resolution leaves the cache unchanged: when               *)
(* PGDB.__getattr__ or get_class_data raises while it creates a PFrame,    *)
(* the _frames of the PGDB are the same as before the call, so that no     *)
(* PFrame that is unfetched or half built stays registered under the name. *)
C29_FailedResolutionNoEntry ==
    [][(/\ last'.op \in {"PGDB.__getattr__", "get_class_data", "get_class_data(True)"}
        /\ last'.exc # "") =>
          pgdbs'[last'.g].frames = pgdbs[last'.g].frames]_vars

\* every entry of every _frames is keyed by the normalized frameid of its PFrame,
\* which belongs to the PGDB of the map; every frameid is wrapped in '|'
CacheKeys(h, ps) ==
    /\ \A g \in 1..Len(ps) : \A k \in DOMAIN ps[g].frames :
          /\ ps[g].frames[k] \in 1..Len(h)
          /\ k = convertLispIdtoPythonId(h[ps[g].frames[k]].frameid)
          /\ h[ps[g].frames[k]].pgdb = g
    /\ \A o \in 1..Len(h) :
          /\ Len(h[o].frameid) >= 2
          /\ StartsWith(h[o].frameid, "|") /\ EndsWith(h[o].frameid, "|")

(* C30. Cache key invariant: in every reachable state each entry           *)
(* key -> PFrame of the _frames of a PGDB has                              *)
(* key = convertLispIdtoPythonId(PFrame.frameid) and PFrame.pgdb is that   *)
(* PGDB; the frameid of every PFrame starts and ends with '|'; and no      *)
(* operation removes a key from _frames.                                   *)
C30_CacheKeyInvariant ==
    [][/\ CacheKeys(heap', pgdbs')
       /\ \A g \in 1..Len(pgdbs) :
             DOMAIN pgdbs[g].frames \subseteq DOMAIN pgdbs'[g].frames]_vars

\* two PGDBs hold PFrames, one of them under a key that differs from the
\* frameid given ('|T-1|' under 't_1'), and some PFrame was fetched
C30_Witness ==
    /\ Len(pgdbs) = 2
    /\ \A g \in 1..2 : DOMAIN pgdbs[g].frames # {}
    /\ \E g \in 1..2 :
          /\ <<"t","_","1">> \in DOMAIN pgdbs[g].frames
          /\ heap[pgdbs[g].frames[<<"t","_","1">>]].frameid = BarT1
    /\ \E o \in 1..Len(heap) : heap[o].gotframe

\* the 10 characters after 'L' in the answer of the server, and what was
\* received of the message after them
HeaderOf(n)  == SubSeq(n.input, 2, 1 + HeaderLen)
MessageOf(n) == IF n.pc = "payload" THEN n.pieces ELSE n.response.s

C24_ErrorSentinel ==
    [][(net.pc = "loads" /\ json_loads(net.response).exc = "") =>
          LET r == json_loads(net.response).v
          IN  IF r.j = "str" /\ Len(r.s) >= 6 /\ SubSeq(r.s, 1, 6) = ColonError
              THEN /\ net'.pc = "raised"
                   /\ net'.exc = "PToolsError"
                   /\ Contains(net'.msg, r.s)
              ELSE /\ net'.pc = "returned"
                   /\ net'.exc = ""
                   /\ net'.r = r]_vars

\* the answer ":error x" made the call raise PToolsError
C24_Witness ==
    /\ net.pc = "raised"
    /\ net.exc = "PToolsError"
    /\ net.response = GotStr(ErrorX)
    /\ Contains(net.msg, <<":","e","r","r","o","r"," ","x">>)

(* C25. The connection is closed on every exit path: when a call of        *)
(* sendQueryToPTools that opened a socket returns or raises, the socket is *)
(* closed; no socket stays open after the call.                            *)
C25_ClosedOnEveryExit ==
    (net.pc \in {"returned", "raised"} /\ net.sock # "none") => net.sock = "closed"

(* C26. Transport failures are typed: every failure of sendQueryToPTools   *)
(* is a PToolsError or a PythonCycError; an empty response, a length after *)
(* 'L' that is no number and a payload that is not JSON are reported so,   *)
(* and not as an exception of Python itself.                               *)
C26_TypedFailures ==
    net.pc = "raised" => net.exc \in {"PToolsError", "PythonCycError"}

(* C28. Full write of the request: sendAll sends every byte of the query   *)
(* exactly once and in order, resuming after a partial send at the first   *)
(* unsent byte, and returns only when all bytes are sent; a send that      *)
(* reports zero bytes makes it raise at once with nothing more sent; the   *)
(* loop ends when every send makes progress or reports zero.               *)
C28_FullWrite ==
    /\ [][net.pc = "sendAll" =>
            /\ net'.wire = SubSeq(net.query, 1, net'.sent_len)
            /\ net'.sent_len <= Len(net.query)
            /\ net.sent_len < Len(net.query) =>
                  \/ net'.pc = "sendAll" /\ net'.sent_len > net.sent_len
                  \/ net'.pc = "raised" /\ net'.wire = net.wire
            /\ net'.pc = "recvAll" => net.wire = net.query /\ net'.wire = net.query
            /\ net'.pc \in {"sendAll", "recvAll", "raised"}]_vars
    /\ (net.pc = "sendAll") ~> (net.pc \in {"recvAll", "raised"})

\* sendAll is in its loop after a send that took the first two bytes of a query
\* of six
C28_Witness ==
    /\ net.pc = "sendAll"
    /\ Len(net.query) = 6
    /\ net.sent_len = 2
    /\ net.wire = <<"(", "f">>

====
